---- MODULE Spec2Model ----
(***************************************************************************)
(* State-machine model of the Vision One car-hire backend: the booking     *)
(* route (upload -> validateBooking -> createBooking and its deferred      *)
(* e-mail phase) and the contact route (createContactInquiry).             *)
(*                                                                         *)
(* JavaScript values are encoded as sequences of atoms.  A string is the   *)
(* sequence of its atoms (single characters such as " ", "@", ".", or      *)
(* indivisible words such as "urgent"); undefined, true, false and         *)
(* inherited function objects are one-atom sequences whose atom starts     *)
(* with "#", which no request string contains.                             *)
(***************************************************************************)
EXTENDS Integers, Sequences, FiniteSets, TLC

\* ------------------------------------------------------------------ bounds
MaxRequests == 2

\* ------------------------------------------------------- JavaScript values
Undefined == <<"#undefined">>
JsTrue == <<"#true">>
JsFalse == <<"#false">>
JsFunction == <<"#function">>
JsNull == <<"#null">>
EmptyStr == <<>>
NaN == -1

Truthy(v) == v \notin {Undefined, JsNull, JsFalse, EmptyStr}

RECURSIVE TrimStart(_)
TrimStart(s) ==
    IF s # <<>> /\ Head(s) = " " THEN TrimStart(Tail(s)) ELSE s

RECURSIVE TrimEnd(_)
TrimEnd(s) ==
    IF s # <<>> /\ s[Len(s)] = " " THEN TrimEnd(SubSeq(s, 1, Len(s) - 1)) ELSE s

\* String.prototype.trim
Trim(s) == TrimEnd(TrimStart(s))

LowerAtom(c) ==
    CASE c = "A" -> "a"
      [] c = "B" -> "b"
      [] c = "Accident" -> "accident"
      [] c = "URGENT" -> "urgent"
      [] c = "Corporate" -> "corporate"
      [] OTHER -> c

\* String.prototype.toLowerCase
ToLowerCase(s) == [i \in 1..Len(s) |-> LowerAtom(s[i])]

\* String.prototype.includes
Includes(text, kw) ==
    \E i \in 0..(Len(text) - Len(kw)) :
        \A j \in 1..Len(kw) : text[i + j] = kw[j]

\* a non-empty run of [^\s@]
NoSpaceNoAt(s) == s # <<>> /\ \A i \in 1..Len(s) : s[i] \notin {" ", "@"}

\* /^[^\s@]+@[^\s@]+\.[^\s@]+$/.test(s)
emailRegexTest(s) ==
    \E i \in 1..Len(s) : \E j \in 1..Len(s) :
        /\ i < j
        /\ s[i] = "@"
        /\ s[j] = "."
        /\ NoSpaceNoAt(SubSeq(s, 1, i - 1))
        /\ NoSpaceNoAt(SubSeq(s, i + 1, j - 1))
        /\ NoSpaceNoAt(SubSeq(s, j + 1, Len(s)))

\* Date.parse: day number of a date string; surrounding white space is
\* skipped by the engine's legacy parser; anything else is NaN.
DateParse(s) ==
    LET t == IF s = Undefined THEN <<>> ELSE Trim(s) IN
    CASE t = <<"2025-01-10">> -> 10
      [] t = <<"2025-01-12">> -> 12
      [] OTHER -> NaN

\* Date.prototype.toLocaleDateString of a parsed day
LocaleDate(n) ==
    CASE n = 10 -> <<"1/10/2025">>
      [] n = 12 -> <<"1/12/2025">>
      [] OTHER -> <<"Invalid Date">>

NA == <<"N/A">>

formatDate(dateStr) ==
    IF ~Truthy(dateStr) THEN NA
    ELSE IF DateParse(dateStr) = NaN THEN NA
    ELSE LocaleDate(DateParse(dateStr))

\* property lookup on an object literal: own keys first, then the keys
\* every object inherits from Object.prototype
ObjectPrototypeKeys ==
    {<<"constructor">>, <<"toString">>, <<"hasOwnProperty">>, <<"valueOf">>}

FileFieldNames == {"idDocument", "drivingLicense", "depositProof"}

\* files?.[name]: req.files is the ARRAY multer's .any() builds, so a
\* field-name key is no index of it and the lookup yields undefined
ArrayGet(arr, key) ==
    IF key \in FileFieldNames THEN Undefined ELSE arr[key]

\* ---------------------------------------------------------------- requests
Pad(s) == <<" ">> \o s \o <<" ">>

GoodBody ==
    [customerName |-> Pad(<<"Jane">>),
     email |-> <<"A", "@", "b", ".", "c">>,
     phone |-> Pad(<<"555">>),
     pickupDate |-> <<"2025-01-10">>,
     returnDate |-> <<"2025-01-12">>,
     carType |-> Pad(<<"suv">>),
     pickupLocation |-> Pad(<<"Airport">>),
     idNumber |-> Pad(<<"P123">>),
     idType |-> <<"passport">>,
     termsAccepted |-> JsTrue,
     dropoffLocation |-> Undefined,
     additionalInfo |-> Undefined]

NoParts == <<>>

\* ------------------------------------------------- routes/bookings.ts
Err(cond, f, m) == IF cond THEN << [field |-> f, message |-> m] >> ELSE <<>>

\* x?.trim()
TrimOpt(v) == IF v = Undefined THEN Undefined ELSE Trim(v)

\* mutant: the comparison written < instead of <=
DateLT(a, b) == a # NaN /\ b # NaN /\ a < b

\* a <= b on numbers, false when either is NaN
DateLE(a, b) == a # NaN /\ b # NaN /\ a <= b

validateBookingIdTypes == {<<"id">>, <<"passport">>}

validateBookingErrors(body) ==
    Err(~Truthy(TrimOpt(body.customerName)), "customerName", "Name is required")
    \o Err(~Truthy(body.email) \/ ~emailRegexTest(body.email),
           "email", "Valid email is required")
    \o Err(~Truthy(TrimOpt(body.phone)), "phone", "Phone number is required")
    \o Err(~Truthy(body.pickupDate) \/ DateParse(body.pickupDate) = NaN,
           "pickupDate", "Valid pickup date is required")
    \o Err(~Truthy(body.returnDate) \/ DateParse(body.returnDate) = NaN,
           "returnDate", "Valid return date is required")
    \o Err(~Truthy(TrimOpt(body.carType)), "carType", "Car type is required")
    \o Err(~Truthy(TrimOpt(body.pickupLocation)),
           "pickupLocation", "Pickup location is required")
    \o Err(~Truthy(TrimOpt(body.idNumber)),
           "idNumber", "ID/Passport number is required")
    \o Err(~Truthy(body.idType) \/ body.idType \notin validateBookingIdTypes,
           "idType", "Valid ID type is required (id or passport)")
    \o Err(~Truthy(body.termsAccepted) \/ body.termsAccepted = <<"false">>,
           "termsAccepted", "Terms and conditions must be accepted")
    \o Err(/\ Truthy(body.pickupDate)
           /\ Truthy(body.returnDate)
           /\ DateLE(DateParse(body.returnDate), DateParse(body.pickupDate)),
           "returnDate", "Return date must be after pickup date")

CoerceTerms(t) == IF t = <<"true">> \/ t = JsTrue THEN JsTrue ELSE JsFalse

TrimIfProvided(v) == IF Truthy(v) THEN Trim(v) ELSE v

\* the "Normalize data" block of validateBooking
validateBookingNormalize(body) ==
    [body EXCEPT
        !.customerName = Trim(body.customerName),
        !.email = ToLowerCase(Trim(body.email)),
        !.phone = Trim(body.phone),
        !.carType = Trim(body.carType),
        !.pickupLocation = Trim(body.pickupLocation),
        !.idNumber = Trim(body.idNumber),
        !.termsAccepted = CoerceTerms(body.termsAccepted),
        !.dropoffLocation = TrimIfProvided(body.dropoffLocation),
        !.additionalInfo = TrimIfProvided(body.additionalInfo)]

\* ------------------------------------- controllers/bookingController.ts
requiredFields ==
    <<"customerName", "email", "phone", "pickupDate", "returnDate",
      "carType", "pickupLocation", "idNumber", "idType">>

missingFields(body) ==
    SelectSeq(requiredFields, LAMBDA f : ~Truthy(body[f]))

validTypes == {<<"id">>, <<"passport">>, <<"national_id">>}

normalizeIdType(idType) ==
    IF idType \in validTypes THEN idType
    ELSE IF idType = <<"national_id">> \/ idType = <<"national-id">>
         THEN <<"national_id">>
    ELSE <<"id">>

\* files?.[name]?.[0]?.path
findFile(files, name) ==
    LET slot == ArrayGet(files, name) IN
    IF slot = Undefined THEN Undefined ELSE slot[1].path

\* x || undefined
OrUndefined(v) == IF Truthy(v) THEN v ELSE Undefined

\* Date.now() when the server starts, less its digits above the ninth (they
\* stay the same for the 11 days that follow); `now` counts the ms since then
ClockBase == 300800000
IdModulus == 100000000

\* `V1-${Date.now().toString().slice(-8)}`
bookingId(now) == (ClockBase + now) % IdModulus

\* mutant: consent checked for presence, not for its value
createBookingTermsPresent(body) == body.termsAccepted # Undefined

\* const termsAccepted = req.body.termsAccepted === 'true' || ... === true
createBookingTerms(body) ==
    body.termsAccepted = <<"true">> \/ body.termsAccepted = JsTrue

BuildBooking(body, files, now) ==
    [id |-> bookingId(now),
     customerName |-> body.customerName,
     email |-> body.email,
     phone |-> body.phone,
     pickupDate |-> body.pickupDate,
     returnDate |-> body.returnDate,
     carType |-> body.carType,
     pickupLocation |-> body.pickupLocation,
     dropoffLocation |-> OrUndefined(body.dropoffLocation),
     additionalInfo |-> OrUndefined(body.additionalInfo),
     idNumber |-> body.idNumber,
     idType |-> normalizeIdType(body.idType),
     termsAccepted |-> createBookingTerms(body),
     bookingDate |-> ClockBase + now,
     status |-> "confirmed",
     idDocumentPath |-> findFile(files, "idDocument"),
     drivingLicensePath |-> findFile(files, "drivingLicense"),
     depositProofPath |-> findFile(files, "depositProof")]

\* the booking object of the 201 body
BookingSummary(b, files) ==
    [id |-> b.id,
     customerName |-> b.customerName,
     email |-> b.email,
     phone |-> b.phone,
     pickupDate |-> formatDate(b.pickupDate),
     returnDate |-> formatDate(b.returnDate),
     carType |-> b.carType,
     pickupLocation |-> b.pickupLocation,
     idNumber |-> b.idNumber,
     idType |-> b.idType,
     status |-> b.status,
     bookingDate |-> [locale |-> b.bookingDate],
     hasDocuments |->
        [idDocument |-> Truthy(findFile(files, "idDocument")),
         drivingLicense |-> Truthy(findFile(files, "drivingLicense")),
         depositProof |-> Truthy(findFile(files, "depositProof"))]]


\* ------------------------------------- controllers/contactController.ts
departmentConfigKeys ==
    {<<"general">>, <<"booking">>, <<"corporate">>, <<"support">>}

\* departmentConfig[department]: the configured entry, an inherited
\* Object.prototype member, or undefined
departmentConfigLookup(department) ==
    IF department \in departmentConfigKeys THEN <<"#config">> \o department
    ELSE IF department \in ObjectPrototypeKeys THEN JsFunction
    ELSE Undefined

urgentKeywords ==
    {<<"urgent">>, <<"emergency">>, <<"immediately">>, <<"asap">>,
     <<"critical">>, <<"broken", " ", "down">>, <<"accident">>, <<"stranded">>}

highKeywords ==
    {<<"important">>, <<"priority">>, <<"corporate">>, <<"business">>,
     <<"enterprise">>, <<"partnership">>, <<"executive">>, <<"ceo">>}

\* mutant: the keywords matched without lower-casing the text
determinePriorityCaseSensitive(subject, message, department) ==
    LET text == subject \o <<" ">> \o message IN
    IF (\E k \in urgentKeywords : Includes(text, k)) \/ department = <<"support">>
    THEN "urgent"
    ELSE IF (\E k \in highKeywords : Includes(text, k)) \/ department = <<"corporate">>
    THEN "high"
    ELSE "normal"

determinePriority(subject, message, department) ==
    LET text == ToLowerCase(subject \o <<" ">> \o message) IN
    IF (\E k \in urgentKeywords : Includes(text, k)) \/ department = <<"support">>
    THEN "urgent"
    ELSE IF (\E k \in highKeywords : Includes(text, k)) \/ department = <<"corporate">>
    THEN "high"
    ELSE "normal"

getAssigneeForDepartment(department) ==
    CASE department = <<"general">> -> <<"executive-team">>
      [] department = <<"booking">> -> <<"reservations-team">>
      [] department = <<"corporate">> -> <<"corporate-team">>
      [] department = <<"support">> -> <<"concierge-team">>
      [] department \in ObjectPrototypeKeys -> JsFunction
      [] OTHER -> <<"executive-team">>

getEstimatedResponseTime(priority) ==
    CASE priority = "urgent" -> "Within 30 minutes"
      [] priority = "high" -> "Within 2 hours"
      [] priority = "normal" -> "Within 4 business hours"
      [] OTHER -> "Within 24 hours"

\* x || ''
OrEmpty(v) == IF Truthy(v) THEN v ELSE EmptyStr

\* the 400 message of the first failing check of createContactInquiry, or ""
contactValidationError(body) ==
    IF \/ ~Truthy(body.name)
       \/ ~Truthy(body.email)
       \/ ~Truthy(body.subject)
       \/ ~Truthy(body.message)
       \/ ~Truthy(body.department)
    THEN "Missing required fields: name, email, subject, message, and department are required"
    ELSE IF ~emailRegexTest(body.email) THEN "Invalid email format"
    ELSE IF ~Truthy(departmentConfigLookup(body.department))
    THEN "Invalid department specified. Valid departments: general, booking, corporate, support"
    ELSE ""

BuildInquiry(body, now, rnd) ==
    [id |-> <<"CONTACT-", ToString(ClockBase + now), "-", rnd>>,
     name |-> body.name,
     email |-> body.email,
     phone |-> OrEmpty(body.phone),
     company |-> OrEmpty(body.company),
     subject |-> body.subject,
     message |-> body.message,
     department |-> body.department,
     submissionDate |-> ClockBase + now,
     status |-> "new",
     priority |-> determinePriority(body.subject, body.message, body.department),
     assignedTo |-> getAssigneeForDepartment(body.department)]

InquirySummary(q) ==
    [id |-> q.id,
     name |-> q.name,
     email |-> q.email,
     subject |-> q.subject,
     department |-> q.department,
     priority |-> q.priority,
     estimatedResponseTime |-> getEstimatedResponseTime(q.priority),
     submissionDate |-> q.submissionDate]


\* --------------------------------------------------- middlewares/upload.ts
\* filename: `${idNumber}_${nameWithoutExt}_${timestamp}${ext}` under uploads/
uploadPath(body, part, now) ==
    <<"uploads/">>
    \o (IF Truthy(body.idNumber) THEN body.idNumber ELSE <<"unknown">>)
    \o <<"_", part.originalname, "_", ToString(ClockBase + now)>>

\* req.files as upload.any() leaves it: an array of the stored files
uploadFiles(body, parts, now) ==
    [i \in 1..Len(parts) |->
        [fieldname |-> parts[i].fieldname, path |-> uploadPath(body, parts[i], now)]]

\* fileFilter refuses a part: multer drops what it stored and passes the error on
uploadRejected(parts) == \E i \in 1..Len(parts) : ~parts[i].ok

\* ------------------------------------------------------------------- state
VARIABLES
    now,               \* Date.now() - ClockBase
    requests,          \* every request received, in order (history)
    responses,         \* every HTTP response sent, in order
    bookings,          \* bookingController.ts: const bookings
    bookingReq,        \* request number of each stored booking (history)
    contactInquiries,  \* contactController.ts: const contactInquiries
    inquiryReq,        \* request number of each stored inquiry (history)
    tasks,             \* deferred e-mail phase of each accepted booking
    handlers,          \* createContactInquiry calls awaiting their sends
    disk,              \* paths present under uploads/
    archives,          \* entry names of each zip file on disk, by path
    resends,           \* sendBookingConfirmation calls, with their answers
    reply,             \* last answer of an administrative inquiry endpoint
    retry,             \* the EmailService.sendWithRetry call under way, if any
    rendered           \* the last call of a date formatter, with its result

vars ==
    <<now, requests, responses, bookings, bookingReq, contactInquiries,
      inquiryReq, tasks, handlers, disk, archives, resends, reply, retry,
      rendered>>

\* no administrative endpoint has answered yet
NoReply == [op |-> "none"]

\* no sendWithRetry call has been made
NoRetry == [pc |-> "idle"]

\* no date formatter has been called on its own
NoRender == [fn |-> "none"]

\* the state the booking flow leaves alone: resend calls, admin answers, the
\* retry helper, which no controller calls, and the formatter calls
Aside == <<resends, reply, retry, rendered>>

Response(n, route, status, errors, error, payload) ==
    [req |-> n, route |-> route, status |-> status, errors |-> errors,
     error |-> error, payload |-> payload]

Init ==
    /\ now = 0
    /\ requests = <<>>
    /\ responses = <<>>
    /\ bookings = <<>>
    /\ bookingReq = <<>>
    /\ contactInquiries = <<>>
    /\ inquiryReq = <<>>
    /\ tasks = <<>>
    /\ handlers = <<>>
    /\ disk = {}
    /\ archives = {}
    /\ resends = <<>>
    /\ reply = NoReply
    /\ retry = NoRetry
    /\ rendered = NoRender

\* index.ts global error handler
internalServerError(n) ==
    Response(n, "booking", 500, <<>>, "Internal server error", <<>>)

\* validateBooking's 400
validationFailed(n, errors) ==
    Response(n, "booking", 400, errors, "", <<>>)

\* createBooking's own 400s
createBookingRejected(n, message) ==
    Response(n, "booking", 400, <<>>, message, <<>>)

\* createBooking's 201
createBookingCreated(n, booking, files) ==
    Response(n, "booking", 201, <<>>, "", <<BookingSummary(booking, files)>>)

\* the setTimeout(async () => {...}, 0) createBooking leaves behind
NewTask(n, b) ==
    [req |-> n, b |-> b, pc |-> "timer", zipPath |-> JsNull,
     admin |-> "none", cust |-> "none", adminZip |-> FALSE, custZip |-> FALSE,
     joined |-> "pending", cleanup |-> "none"]

\* POST /api/bookings: upload, validateBooking, createBooking up to the
\* point where the handler returns (the response is out, the timer is set)
PostBooking(req) ==
    LET n == Len(requests) + 1
        files == uploadFiles(req.body, req.parts, now')
        errors == validateBookingErrors(req.body)
        body == validateBookingNormalize(req.body)
        missing == missingFields(body)
        booking == BuildBooking(body, files, now')
    IN
    /\ \E dt \in 0..1 : now' = now + dt
    /\ requests' = Append(requests, [kind |-> "booking", body |-> req.body, parts |-> req.parts])
    /\ UNCHANGED <<contactInquiries, inquiryReq, handlers, archives>>
    /\ UNCHANGED Aside
    /\ IF uploadRejected(req.parts)
       THEN /\ responses' = Append(responses, internalServerError(n))
            /\ UNCHANGED <<bookings, bookingReq, tasks, disk>>
       ELSE /\ disk' = disk \cup {files[i].path : i \in 1..Len(files)}
            /\ IF errors # <<>>
               THEN /\ responses' = Append(responses, validationFailed(n, errors))
                    /\ UNCHANGED <<bookings, bookingReq, tasks>>
               ELSE IF missing # <<>>
               THEN /\ responses' = Append(responses,
                            createBookingRejected(n, "Missing required fields"))
                    /\ UNCHANGED <<bookings, bookingReq, tasks>>
               ELSE IF ~createBookingTerms(body)
               THEN /\ responses' = Append(responses,
                            createBookingRejected(n, "Terms and conditions must be accepted"))
                    /\ UNCHANGED <<bookings, bookingReq, tasks>>
               ELSE /\ bookings' = Append(bookings, booking)
                    /\ bookingReq' = Append(bookingReq, n)
                    /\ responses' = Append(responses, createBookingCreated(n, booking, files))
                    /\ tasks' = Append(tasks, NewTask(n, Len(bookings) + 1))


\* ------------------------------------------- deferred phase of createBooking
Paths(booking) ==
    <<booking.idDocumentPath, booking.drivingLicensePath, booking.depositProofPath>>

\* mutant: every set path is pushed, on disk or not
filesToZipUnchecked(booking, d) ==
    SelectSeq(Paths(booking), LAMBDA p : Truthy(p))

\* the paths createDocumentsZip pushes: set and present on disk
filesToZip(booking, d) ==
    SelectSeq(Paths(booking), LAMBDA p : Truthy(p) /\ p \in d)

\* path.join(UPLOAD_DIR, `${booking.idNumber}_documents.zip`)
zipFilePath(booking) == <<"uploads/">> \o booking.idNumber \o <<"_documents.zip">>

\* directory atoms of the paths the server handles
DirAtoms == {"uploads/", "tmp/"}

\* path.basename
RECURSIVE basename(_)
basename(p) ==
    IF p # <<>> /\ Head(p) \in DirAtoms THEN basename(Tail(p)) ELSE p

\* zip.addLocalFile(filePath, undefined, path.basename(filePath)) for each
\* pushed path: the entry names of the archive, in order
zipEntryNames(booking, d) ==
    [i \in 1..Len(filesToZip(booking, d)) |-> basename(filesToZip(booking, d)[i])]

\* mutant: the archive is not written by the time the packager returns
writeZipDeferred(arch, z, entries) == arch

\* zip.writeZip(zipPath): the file at zipPath now holds these entries
writeZip(arch, z, entries) ==
    {a \in arch : a.path # z} \cup {[path |-> z, entries |-> entries]}

\* fs.unlinkSync(zipPath) on an existing file
unlinked(arch, z) == {a \in arch : a.path # z}

\* null when nothing is to be zipped or the write throws, else the zip's path
createDocumentsZip(booking, d, ioError) ==
    IF filesToZip(booking, d) = <<>> THEN JsNull
    ELSE IF ioError THEN JsNull
    ELSE zipFilePath(booking)

\* zipPath && fs.existsSync(zipPath)
zipPresent(zipPath, d) == Truthy(zipPath) /\ zipPath \in d

\* mutant: the catch answers the request again, as the outer catch does
emailErrorCatchResponds(resps, t) ==
    Append(resps, [req |-> t.req, route |-> "booking", status |-> 500,
                   errors |-> <<>>, error |-> "Failed to create booking",
                   payload |-> <<>>])

\* the inner catch (emailError): logs, answers nothing
emailErrorCatch(resps, t) == resps

\* Promise.all over the two sends: rejects on the first failure, fulfils
\* when both are done
joinAll(t) ==
    IF t.joined # "pending" THEN t.joined
    ELSE IF t.admin = "failed" \/ t.cust = "failed" THEN "rejected"
    ELSE IF t.admin = "ok" /\ t.cust = "ok" THEN "fulfilled"
    ELSE "pending"

\* what follows the inner try/catch: schedule the zip's removal, then return
afterEmails(t, outcome, d) ==
    [t EXCEPT !.joined = outcome,
              !.pc = "done",
              !.cleanup = IF zipPresent(t.zipPath, d) THEN "scheduled" ELSE "none"]

\* a send settles: resume the callback if that settles Promise.all
Settle(t, d) ==
    IF t.pc = "sending" /\ joinAll(t) # "pending"
    THEN afterEmails(t, joinAll(t), d)
    ELSE t

SettleResponses(t) ==
    IF t.pc = "sending" /\ joinAll(t) = "rejected"
    THEN emailErrorCatch(responses, t)
    ELSE responses

Untouched ==
    <<now, requests, bookings, bookingReq, contactInquiries, inquiryReq, handlers,
      resends, reply, retry, rendered>>

\* the timer callback starts: createDocumentsZip, then transporter.verify()
TimerFires(i) ==
    /\ tasks[i].pc = "timer"
    /\ \E ioError \in BOOLEAN :
        LET z == createDocumentsZip(bookings[tasks[i].b], disk, ioError) IN
        /\ tasks' = [tasks EXCEPT ![i].zipPath = z, ![i].pc = "verify"]
        /\ disk' = IF z # JsNull THEN disk \cup {z} ELSE disk
        /\ archives' = IF z # JsNull
                       THEN writeZip(archives, z, zipEntryNames(bookings[tasks[i].b], disk))
                       ELSE archives
    /\ UNCHANGED <<responses>>
    /\ UNCHANGED Untouched

\* sendAdminNotification up to transporter.sendMail, and
\* sendCustomerConfirmation up to generateBookingPDF
startSends(t, d) ==
    [t EXCEPT !.pc = "sending",
              !.admin = "inflight",
              !.adminZip = zipPresent(t.zipPath, d),
              !.cust = "pdf"]

\* transporter.verify() settles
VerifySettles(i, ok) ==
    /\ tasks[i].pc = "verify"
    /\ IF ok
       THEN /\ tasks' = [tasks EXCEPT ![i] = startSends(tasks[i], disk)]
            /\ responses' = responses
       ELSE /\ tasks' = [tasks EXCEPT ![i] = afterEmails(tasks[i], "rejected", disk)]
            /\ responses' = emailErrorCatch(responses, tasks[i])
    /\ UNCHANGED <<disk, archives>>
    /\ UNCHANGED Untouched

\* generateBookingPDF settles; on success the customer mail goes out
PdfSettles(i, ok) ==
    /\ tasks[i].cust = "pdf"
    /\ LET t == IF ok
                THEN [tasks[i] EXCEPT !.cust = "inflight",
                                      !.custZip = zipPresent(tasks[i].zipPath, disk)]
                ELSE [tasks[i] EXCEPT !.cust = "failed"]
       IN /\ tasks' = [tasks EXCEPT ![i] = Settle(t, disk)]
          /\ responses' = SettleResponses(t)
    /\ UNCHANGED <<disk, archives>>
    /\ UNCHANGED Untouched

\* the admin transporter.sendMail settles
AdminSendSettles(i, ok) ==
    /\ tasks[i].admin = "inflight"
    /\ LET t == [tasks[i] EXCEPT !.admin = IF ok THEN "ok" ELSE "failed"]
       IN /\ tasks' = [tasks EXCEPT ![i] = Settle(t, disk)]
          /\ responses' = SettleResponses(t)
    /\ UNCHANGED <<disk, archives>>
    /\ UNCHANGED Untouched

\* the customer transporter.sendMail settles
CustSendSettles(i, ok) ==
    /\ tasks[i].cust = "inflight"
    /\ LET t == [tasks[i] EXCEPT !.cust = IF ok THEN "ok" ELSE "failed"]
       IN /\ tasks' = [tasks EXCEPT ![i] = Settle(t, disk)]
          /\ responses' = SettleResponses(t)
    /\ UNCHANGED <<disk, archives>>
    /\ UNCHANGED Untouched

\* the cleanup timer of the deferred phase fires, 5 s after it was set:
\* fs.unlinkSync(zipPath), which throws when the file is gone
CleanupFires(i) ==
    /\ tasks[i].cleanup = "scheduled"
    /\ IF tasks[i].zipPath \in disk
       THEN /\ disk' = disk \ {tasks[i].zipPath}
            /\ archives' = unlinked(archives, tasks[i].zipPath)
            /\ tasks' = [tasks EXCEPT ![i].cleanup = "done"]
       ELSE /\ tasks' = [tasks EXCEPT ![i].cleanup = "threw"]
            /\ UNCHANGED <<disk, archives>>
    /\ UNCHANGED <<responses>>
    /\ UNCHANGED Untouched

\* ------------------------------- POST /api/bookings/send-confirmation
\* the id string `V1-...` of a stored booking
JsIdOf(b) == <<"V1-", ToString(b.id)>>

\* bookings.find(b => b.id === bookingId): the first match, or 0 for none
findBooking(store, id) ==
    IF \E k \in DOMAIN store : JsIdOf(store[k]) = id
    THEN CHOOSE k \in DOMAIN store :
            /\ JsIdOf(store[k]) = id
            /\ \A j \in 1..(k - 1) : JsIdOf(store[j]) # id
    ELSE 0

\* a call that answered at once
Answered(id, status) ==
    [bookingId |-> id, b |-> 0, pc |-> "done", status |-> status,
     zipPath |-> JsNull, cust |-> "none", custZip |-> FALSE]

\* the answer that reports success whatever the send did
resendStatusAlways200(ok) == 200

\* res.json(...) after the send, or the catch block's 500
resendStatus(ok) == IF ok THEN 200 ELSE 500

\* sendBookingConfirmation up to the first suspension: the id checks,
\* createDocumentsZip, and sendCustomerConfirmation up to generateBookingPDF
PostSendConfirmation(body) ==
    LET k == findBooking(bookings, body.bookingId) IN
    /\ IF ~Truthy(body.bookingId)
       THEN /\ resends' = Append(resends, Answered(body.bookingId, 400))
            /\ UNCHANGED <<disk, archives>>
       ELSE IF k = 0
       THEN /\ resends' = Append(resends, Answered(body.bookingId, 404))
            /\ UNCHANGED <<disk, archives>>
       ELSE \E ioError \in BOOLEAN :
            LET z == createDocumentsZip(bookings[k], disk, ioError) IN
            /\ resends' = Append(resends,
                    [bookingId |-> body.bookingId, b |-> k, pc |-> "pdf", status |-> 0,
                     zipPath |-> z, cust |-> "pdf", custZip |-> FALSE])
            /\ disk' = IF z # JsNull THEN disk \cup {z} ELSE disk
            /\ archives' = IF z # JsNull
                           THEN writeZip(archives, z, zipEntryNames(bookings[k], disk))
                           ELSE archives
    /\ UNCHANGED <<now, retry, rendered, requests, responses, bookings, bookingReq, contactInquiries,
                   inquiryReq, tasks, handlers, reply>>

\* generateBookingPDF settles in a resend: on success the mail goes out,
\* on failure the catch block answers 500
ResendPdfSettles(j, ok) ==
    /\ resends[j].pc = "pdf"
    /\ resends' =
          [resends EXCEPT ![j] =
              IF ok
              THEN [@ EXCEPT !.pc = "sending", !.cust = "inflight",
                             !.custZip = zipPresent(resends[j].zipPath, disk)]
              ELSE [@ EXCEPT !.pc = "done", !.cust = "failed",
                             !.status = resendStatus(FALSE)]]
    /\ UNCHANGED <<now, retry, rendered, requests, responses, bookings, bookingReq, contactInquiries,
                   inquiryReq, tasks, handlers, disk, archives, reply>>

\* transporter.sendMail settles in a resend: on success the zip is removed
\* and 200 answered, on failure the catch block answers 500
ResendSendSettles(j, ok) ==
    /\ resends[j].pc = "sending"
    /\ resends' = [resends EXCEPT ![j].pc = "done",
                                  ![j].cust = IF ok THEN "ok" ELSE "failed",
                                  ![j].status = resendStatus(ok)]
    /\ IF ok /\ zipPresent(resends[j].zipPath, disk)
       THEN /\ disk' = disk \ {resends[j].zipPath}
            /\ archives' = unlinked(archives, resends[j].zipPath)
       ELSE UNCHANGED <<disk, archives>>
    /\ UNCHANGED <<now, retry, rendered, requests, responses, bookings, bookingReq, contactInquiries,
                   inquiryReq, tasks, handlers, reply>>

\* ------------------------------------------------ POST /api/contact
contactRejected(n, message) ==
    Response(n, "contact", 400, <<>>, message, <<>>)

contactCreated(n, q) ==
    Response(n, "contact", 201, <<>>, "", <<InquirySummary(q)>>)

\* createContactInquiry up to `await Promise.allSettled([...])`
PostContact(req, rnd) ==
    LET n == Len(requests) + 1
        message == contactValidationError(req.body)
        q == BuildInquiry(req.body, now', rnd)
    IN
    /\ \E dt \in 0..1 : now' = now + dt
    /\ requests' = Append(requests, [kind |-> "contact", body |-> req.body, parts |-> <<>>])
    /\ UNCHANGED <<bookings, bookingReq, tasks, disk, archives>>
    /\ UNCHANGED Aside
    /\ IF message # ""
       THEN /\ responses' = Append(responses, contactRejected(n, message))
            /\ UNCHANGED <<contactInquiries, inquiryReq, handlers>>
       ELSE /\ contactInquiries' = Append(contactInquiries, q)
            /\ inquiryReq' = Append(inquiryReq, n)
            /\ handlers' = Append(handlers,
                    [req |-> n, q |-> Len(contactInquiries) + 1,
                     ack |-> "inflight", internal |-> "inflight", pc |-> "awaiting"])
            /\ responses' = responses

\* the contactInquiry object the handler of request n built and pushed,
\* wherever a later in-place sort of the store has moved it
InquiryOf(n) ==
    contactInquiries[CHOOSE k \in DOMAIN inquiryReq : inquiryReq[k] = n]

\* mutant: Promise.all in place of Promise.allSettled, a failed send
\* landing in the catch block's 500
contactResumeRejecting(h, resps) ==
    IF h.pc = "awaiting" /\ h.ack # "inflight" /\ h.internal # "inflight"
    THEN IF h.ack = "failed" \/ h.internal = "failed"
         THEN Append(resps, Response(h.req, "contact", 500, <<>>,
                                     "Failed to process contact inquiry", <<>>))
         ELSE Append(resps, Response(h.req, "contact", 201, <<>>, "", <<>>))
    ELSE resps

\* Promise.allSettled resolves once neither send is in flight; the handler
\* then answers 201
contactResume(h, resps) ==
    IF h.pc = "awaiting" /\ h.ack # "inflight" /\ h.internal # "inflight"
    THEN Append(resps, contactCreated(h.req, InquiryOf(h.req)))
    ELSE resps

contactResumePc(h) ==
    IF h.pc = "awaiting" /\ h.ack # "inflight" /\ h.internal # "inflight"
    THEN [h EXCEPT !.pc = "done"]
    ELSE h

\* sendAcknowledgementEmail settles
AckSettles(i, ok) ==
    /\ handlers[i].ack = "inflight"
    /\ LET h == [handlers[i] EXCEPT !.ack = IF ok THEN "ok" ELSE "failed"]
       IN /\ handlers' = [handlers EXCEPT ![i] = contactResumePc(h)]
          /\ responses' = contactResume(h, responses)
    /\ UNCHANGED <<now, requests, bookings, bookingReq, contactInquiries, inquiryReq,
                   tasks, disk, archives>>
    /\ UNCHANGED Aside

\* sendInternalNotificationEmail settles
InternalSettles(i, ok) ==
    /\ handlers[i].internal = "inflight"
    /\ LET h == [handlers[i] EXCEPT !.internal = IF ok THEN "ok" ELSE "failed"]
       IN /\ handlers' = [handlers EXCEPT ![i] = contactResumePc(h)]
          /\ responses' = contactResume(h, responses)
    /\ UNCHANGED <<now, requests, bookings, bookingReq, contactInquiries, inquiryReq,
                   tasks, disk, archives>>
    /\ UNCHANGED Aside


\* ------------------------------------------- GET /api/contact (inquiries)
\* the JavaScript string of a status or priority the model keeps as a word
JsString(w) == <<w>>

\* const priorityOrder = { urgent: 0, high: 1, normal: 2, low: 3 }
priorityOrder(p) ==
    CASE p = "urgent" -> 0
      [] p = "high" -> 1
      [] p = "normal" -> 2
      [] p = "low" -> 3

\* the comparator's sign with the dates subtracted the other way round
compareInquiriesOldestFirst(a, b) ==
    IF priorityOrder(a.priority) - priorityOrder(b.priority) # 0
    THEN priorityOrder(a.priority) - priorityOrder(b.priority)
    ELSE a.submissionDate - b.submissionDate

\* the comparator handed to filteredInquiries.sort
compareInquiries(a, b) ==
    IF priorityOrder(a.priority) - priorityOrder(b.priority) # 0
    THEN priorityOrder(a.priority) - priorityOrder(b.priority)
    ELSE b.submissionDate - a.submissionDate

\* x placed behind every element of the sorted run it does not precede
RECURSIVE InsertByPriority(_, _)
InsertByPriority(x, sorted) ==
    IF sorted = <<>> THEN <<x>>
    ELSE IF compareInquiries(x, Head(sorted)) < 0 THEN <<x>> \o sorted
    ELSE <<Head(sorted)>> \o InsertByPriority(x, Tail(sorted))

\* Array.prototype.sort with compareInquiries (a stable sort)
RECURSIVE sortByPriority(_)
sortByPriority(list) ==
    IF list = <<>> THEN <<>>
    ELSE InsertByPriority(list[Len(list)], sortByPriority(SubSeq(list, 1, Len(list) - 1)))

\* the three optional filters of the query string
applyFilters(list, query) ==
    LET byDepartment ==
            IF Truthy(query.department)
            THEN SelectSeq(list, LAMBDA q : q.department = query.department)
            ELSE list
        byStatus ==
            IF Truthy(query.status)
            THEN SelectSeq(byDepartment, LAMBDA q : JsString(q.status) = query.status)
            ELSE byDepartment
    IN  IF Truthy(query.priority)
        THEN SelectSeq(byStatus, LAMBDA q : JsString(q.priority) = query.priority)
        ELSE byStatus

\* Number(limit) for the limits of the query pool; other text is not a number
NumericLimits == {<<"1">>, <<"2">>, <<"-1">>}

NumberOf(limit) ==
    CASE limit = <<"1">> -> 1
      [] limit = <<"2">> -> 2
      [] limit = <<"-1">> -> 0 - 1

\* Array.prototype.slice(0, k)
Slice0(list, k) ==
    IF k >= 0
    THEN SubSeq(list, 1, IF k < Len(list) THEN k ELSE Len(list))
    ELSE SubSeq(list, 1, IF Len(list) + k > 0 THEN Len(list) + k ELSE 0)

\* if (limit && !isNaN(Number(limit))) slice(0, Number(limit))
applyLimit(list, limit) ==
    IF Truthy(limit) /\ limit \in NumericLimits
    THEN Slice0(list, NumberOf(limit))
    ELSE list

\* one element of the `inquiries` array of the answer
InquiryListItem(q) ==
    [id |-> q.id, name |-> q.name, email |-> q.email, phone |-> q.phone,
     company |-> q.company, subject |-> q.subject, department |-> q.department,
     status |-> q.status, priority |-> q.priority,
     submissionDate |-> q.submissionDate, assignedTo |-> q.assignedTo]

getContactInquiriesResult(store, query) ==
    LET out == applyLimit(sortByPriority(applyFilters(store, query)), query.limit)
    IN  [i \in 1..Len(out) |-> InquiryListItem(out[i])]

\* GET /api/contact: works on a copy of the store and answers 200
GetContactInquiries(query) ==
    /\ reply' = [op |-> "list", query |-> query, status |-> 200,
                 count |-> Len(getContactInquiriesResult(contactInquiries, query)),
                 result |-> getContactInquiriesResult(contactInquiries, query)]
    /\ UNCHANGED <<now, retry, rendered, requests, responses, bookings, bookingReq, contactInquiries,
                   inquiryReq, tasks, handlers, disk, archives, resends>>

\* --------------------------------------- PATCH /api/contact/:id/status
validStatuses == {<<"new">>, <<"in-progress">>, <<"resolved">>, <<"archived">>}

\* contactInquiries.find(i => i.id === id): the first match, or 0 for none
findInquiry(store, id) ==
    IF \E k \in DOMAIN store : store[k].id = id
    THEN CHOOSE k \in DOMAIN store :
            /\ store[k].id = id
            /\ \A j \in 1..(k - 1) : store[j].id # id
    ELSE 0

\* status && !validStatuses.includes(status)
statusRejected(status) == Truthy(status) /\ status \notin validStatuses

\* mutant: the update also overwrites the subject
updatedInquiryAndSubject(q, body) ==
    [q EXCEPT !.status = IF Truthy(body.status) THEN body.status[1] ELSE @,
              !.assignedTo = IF Truthy(body.assignedTo) THEN body.assignedTo ELSE @,
              !.subject = IF Truthy(body.assignedTo) THEN body.assignedTo ELSE @]

\* if (status) inquiry.status = status; if (assignedTo) inquiry.assignedTo = assignedTo
updatedInquiry(q, body) ==
    [q EXCEPT !.status = IF Truthy(body.status) THEN body.status[1] ELSE @,
              !.assignedTo = IF Truthy(body.assignedTo) THEN body.assignedTo ELSE @]

UpdateInquiryStatus(id, body) ==
    LET k == findInquiry(contactInquiries, id)
        base == [op |-> "update", id |-> id, body |-> body]
    IN
    /\ IF k = 0
       THEN /\ reply' = base @@ [status |-> 404]
            /\ UNCHANGED contactInquiries
       ELSE IF statusRejected(body.status)
       THEN /\ reply' = base @@ [status |-> 400]
            /\ UNCHANGED contactInquiries
       ELSE /\ contactInquiries' =
                  [contactInquiries EXCEPT ![k] = updatedInquiry(contactInquiries[k], body)]
            /\ reply' = base @@ [status |-> 200]
    /\ UNCHANGED <<now, retry, rendered, requests, responses, bookings, bookingReq, inquiryReq,
                   tasks, handlers, disk, archives, resends>>

\* ------------------------------------------- GET /api/contact/stats
\* index x placed behind every index of the run whose inquiry is not older
RECURSIVE InsertNewestFirst(_, _, _)
InsertNewestFirst(store, x, sorted) ==
    IF sorted = <<>> THEN <<x>>
    ELSE IF store[Head(sorted)].submissionDate - store[x].submissionDate < 0
    THEN <<x>> \o sorted
    ELSE <<Head(sorted)>> \o InsertNewestFirst(store, x, Tail(sorted))

\* the order contactInquiries.sort((a, b) => b.date - a.date) leaves the
\* store in, as the sequence of the old positions
RECURSIVE newestFirstOrder(_, _)
newestFirstOrder(store, n) ==
    IF n = 0 THEN <<>>
    ELSE InsertNewestFirst(store, n, newestFirstOrder(store, n - 1))

countWhere(store, field, value) ==
    Cardinality({k \in DOMAIN store : store[k][field] = value})

\* byStatus, byPriority and byDepartment of the answer
statsCounts(store) ==
    [total |-> Len(store),
     byStatus |-> [w \in {"new", "in-progress", "resolved", "archived"} |->
                      countWhere(store, "status", w)],
     byPriority |-> [w \in {"urgent", "high", "normal", "low"} |->
                      countWhere(store, "priority", w)],
     byDepartment |-> [w \in {"general", "booking", "corporate", "support"} |->
                      countWhere(store, "department", <<w>>)]]

\* GET /api/contact/stats: recentInquiries sorts the store itself
GetInquiryStats ==
    LET order == newestFirstOrder(contactInquiries, Len(contactInquiries))
        sorted == [i \in 1..Len(order) |-> contactInquiries[order[i]]]
    IN
    /\ contactInquiries' = sorted
    /\ inquiryReq' = [i \in 1..Len(order) |-> inquiryReq[order[i]]]
    /\ reply' = [op |-> "stats", status |-> 200,
                 stats |-> statsCounts(contactInquiries),
                 recent |-> [i \in 1..(IF Len(sorted) < 5 THEN Len(sorted) ELSE 5) |->
                                sorted[i].id]]
    /\ UNCHANGED <<now, retry, rendered, requests, responses, bookings, bookingReq,
                   tasks, handlers, disk, archives, resends>>

\* ------------------------------------------------------------ request pools
BookingReq(body, parts) == [body |-> body, parts |-> parts]

OneGoodPartNamed == << [fieldname |-> "idDocument", originalname |-> "id.png", ok |-> TRUE] >>
OneBadPartNamed == << [fieldname |-> "depositProof", originalname |-> "slip.exe", ok |-> FALSE] >>

\* the submissions of the workflow specification
BookingPool ==
    { BookingReq(GoodBody, NoParts),
      BookingReq(GoodBody, OneGoodPartNamed),
      BookingReq(GoodBody, OneBadPartNamed),
      BookingReq([GoodBody EXCEPT !.termsAccepted = <<"yes">>], NoParts),
      BookingReq([GoodBody EXCEPT !.termsAccepted = JsFalse,
                                  !.returnDate = <<"2025-01-10">>], NoParts) }

GoodContact ==
    [name |-> <<"Jane">>,
     email |-> <<"a", "@", "b", ".", "c">>,
     phone |-> Undefined,
     company |-> Undefined,
     subject |-> <<"hello">>,
     message |-> <<"x">>,
     department |-> <<"general">>]

ContactReq(body) == [body |-> body]

ContactPool ==
    { ContactReq(GoodContact),
      ContactReq([GoodContact EXCEPT !.department = <<"constructor">>]),
      ContactReq([GoodContact EXCEPT !.name = Undefined, !.email = <<"a", "@", "b">>]) }

\* Math.random().toString(36).substr(2, 9).toUpperCase()
RandomPool == {"K3X", "Z9Q"}

\* the submissions of the validation specification: every combination of
\* the listed values of each field
BookingBodies ==
    [customerName : {Undefined, <<" ">>, Pad(<<"Jane">>)},
     email : {<<"A", "@", "b", ".", "c">>, <<" ", "a", "@", "b", ".", "c">>,
              <<"a", "@", "b">>},
     phone : {EmptyStr, Pad(<<"555">>)},
     pickupDate : {<<"2025-01-10">>, <<"2025-01-12">>, <<"soon">>},
     returnDate : {Undefined, <<"2025-01-10">>, <<"2025-01-12">>, Pad(<<"2025-01-12">>)},
     carType : {Undefined, Pad(<<"suv">>)},
     pickupLocation : {EmptyStr, Pad(<<"Airport">>)},
     idNumber : {Undefined, Pad(<<"P123">>)},
     idType : {<<"id">>, <<"passport">>, <<"national_id">>, <<"license">>},
     termsAccepted : {JsTrue, JsFalse, <<"true">>, <<"false">>, <<"yes">>},
     dropoffLocation : {Undefined, <<" ">>, Pad(<<"Hotel">>)},
     additionalInfo : {Undefined, Pad(<<"note">>)}]

ContactBodies ==
    [name : {Undefined, <<"Jane">>},
     email : {EmptyStr, <<"a", "@", "b">>, <<"A", "@", "b", ".", "c">>},
     phone : {Undefined},
     company : {Undefined},
     subject : {EmptyStr, <<"hello">>, <<"Accident", " ", "on", " ", "highway">>,
                <<"car", " ", "broken">>, <<"important">>},
     message : {EmptyStr, <<"x">>, <<"down", " ", "now">>, <<"URGENT">>, <<"Corporate">>},
     department : {Undefined, <<"general">>, <<"booking">>, <<"corporate">>,
                   <<"support">>, <<"sales">>, <<"constructor">>}]

\* the submissions of the administration specification: priorities normal,
\* urgent (by department) and high (by keyword)
AdminContactPool ==
    { ContactReq(GoodContact),
      ContactReq([GoodContact EXCEPT !.department = <<"support">>]),
      ContactReq([GoodContact EXCEPT !.subject = <<"important">>]) }

\* the administration specification has every mail delivered and one
\* random suffix: neither reaches the inquiry store
MailOutcomesAdmin == {TRUE}

AdminRandomPool == {"K3X"}

\* req.query of GET /api/contact
NoQuery ==
    [department |-> Undefined, status |-> Undefined, priority |-> Undefined,
     limit |-> Undefined]

QueryPool ==
    { NoQuery,
      [NoQuery EXCEPT !.department = <<"support">>],
      [NoQuery EXCEPT !.status = <<"resolved">>],
      [NoQuery EXCEPT !.priority = <<"normal">>],
      [NoQuery EXCEPT !.department = <<"general">>, !.priority = <<"normal">>],
      [NoQuery EXCEPT !.limit = <<"1">>],
      [NoQuery EXCEPT !.limit = <<"-1">>],
      [NoQuery EXCEPT !.limit = <<"abc">>] }

\* req.params.id of the status update: a stored id or an unknown one
IdPool == {contactInquiries[k].id : k \in DOMAIN contactInquiries} \cup {<<"CONTACT-0">>}

\* req.body of the status update
UpdatePool ==
    { [status |-> <<"resolved">>, assignedTo |-> <<"bob">>],
      [status |-> <<"closed">>, assignedTo |-> <<"bob">>],
      [status |-> EmptyStr, assignedTo |-> <<"bob">>],
      [status |-> Undefined, assignedTo |-> Undefined] }

\* documents a booking record may point at, as multer's disk storage names them
IdDocumentFile == <<"uploads/", "idDocument-1.png">>
DrivingLicenseFile == <<"uploads/", "drivingLicense-2.pdf">>
DepositProofFile == <<"uploads/", "depositProof-3.jpg">>
DocumentFiles == {IdDocumentFile, DrivingLicenseFile, DepositProofFile}

\* a stored booking whose three document paths are p1, p2, p3
DocumentBooking(p1, p2, p3) ==
    [BuildBooking(validateBookingNormalize(GoodBody), <<>>, 0)
        EXCEPT !.idDocumentPath = p1, !.drivingLicensePath = p2,
               !.depositProofPath = p3]

\* resends accepted in one run
MaxResends == 2

\* bodies of POST /api/bookings/send-confirmation: the stored id, an id
\* nobody has, no id, an empty id
UnknownBookingId == <<"V1-", "0">>
ResendPool ==
    { [bookingId |-> JsIdOf(bookings[k])] : k \in DOMAIN bookings }
    \cup { [bookingId |-> UnknownBookingId], [bookingId |-> Undefined],
           [bookingId |-> EmptyStr] }

\* ------------------------------------- services/emailService.ts
\* Math.pow(2, i)
RECURSIVE Pow2(_)
Pow2(i) == IF i <= 0 THEN 1 ELSE 2 * Pow2(i - 1)

\* 1000 * Math.pow(2, i)
backoffDelay(i) == 1000 * Pow2(i)

\* mutant: one attempt more than asked for
loopContinuesInclusive(i, maxRetries) == i <= maxRetries

\* for (let i = 0; i < maxRetries; i++)
loopContinues(i, maxRetries) == i < maxRetries

\* mutant: a wait follows every failed attempt, the last one too
backoffWantedAlways(i, maxRetries) == TRUE

\* if (i < maxRetries - 1)
backoffWanted(i, maxRetries) == i < maxRetries - 1

\* what one call of emailFn can do: resolve with success, resolve with
\* success = false, or throw
EmailFnOutcomes == {"success", "failure", "throws"}

\* the largest maxRetries tried
MaxRetriesTried == 4

\* sendWithRetry is entered with maxRetries = m
StartRetry(m) ==
    [pc |-> "loop", maxRetries |-> m, i |-> 0, attempts |-> <<>>, waits |-> <<>>,
     lastError |-> JsNull, result |-> "none", waitedSince |-> 0]

\* one turn of the loop body: await emailFn() inside the try, then either
\* return its result, or record lastError and start the backoff timer, or
\* go to the next turn
RetryAttempt(outcome) ==
    /\ retry.pc = "loop"
    /\ loopContinues(retry.i, retry.maxRetries)
    /\ retry' =
          IF outcome = "success"
          THEN [retry EXCEPT !.attempts = Append(@, outcome),
                             !.pc = "returned", !.result = "success"]
          ELSE IF backoffWanted(retry.i, retry.maxRetries)
          THEN [retry EXCEPT !.attempts = Append(@, outcome),
                             !.lastError = <<outcome>>,
                             !.pc = "backoff", !.waitedSince = now]
          ELSE [retry EXCEPT !.attempts = Append(@, outcome),
                             !.lastError = <<outcome>>,
                             !.i = @ + 1]
    /\ UNCHANGED <<now, requests, responses, bookings, bookingReq, contactInquiries,
                   inquiryReq, tasks, handlers, disk, archives, resends, reply,
                   rendered>>

\* the backoff timer fires and the loop goes to its next turn
RetryBackoffElapsed ==
    /\ retry.pc = "backoff"
    /\ now' = retry.waitedSince + backoffDelay(retry.i)
    /\ retry' = [retry EXCEPT !.waits = Append(@, now' - retry.waitedSince),
                              !.i = @ + 1, !.pc = "loop"]
    /\ UNCHANGED <<requests, responses, bookings, bookingReq, contactInquiries,
                   inquiryReq, tasks, handlers, disk, archives, resends, reply,
                   rendered>>

\* the loop is over: return { success: false, error: `Failed after ...` }
RetryGivesUp ==
    /\ retry.pc = "loop"
    /\ ~loopContinues(retry.i, retry.maxRetries)
    /\ retry' = [retry EXCEPT !.pc = "returned", !.result = "failure"]
    /\ UNCHANGED <<now, requests, responses, bookings, bookingReq, contactInquiries,
                   inquiryReq, tasks, handlers, disk, archives, resends, reply,
                   rendered>>

\* --------------------------------------------- the date formatters
\* formatDate and formatDateTime of bookingController.ts, and the two of the
\* same names in emailService.ts
Formatters == {"formatDate", "formatDateTime", "email.formatDate", "email.formatDateTime"}

\* toLocaleDateString(), toLocaleString(), and the two with the en-US long
\* options, of a parsed day
LocaleText(fn, n) ==
    CASE fn = "formatDate" -> LocaleDate(n)
      [] fn = "formatDateTime" -> LocaleDate(n) \o <<", 12:00:00 AM">>
      [] fn = "email.formatDate" ->
            IF n = 10 THEN <<"January 10, 2025">>
            ELSE IF n = 12 THEN <<"January 12, 2025">> ELSE <<"Invalid Date">>
      [] OTHER ->
            IF n = 10 THEN <<"January 10, 2025 at 12:00 AM">>
            ELSE IF n = 12 THEN <<"January 12, 2025 at 12:00 AM">>
            ELSE <<"Invalid Date">>

\* mutant: the text of the date, valid or not
shownAlways(parsed, text, fallback) == text

\* isNaN(date.getTime()) ? fallback : date.toLocale...()
shownOrFallback(parsed, text, fallback) == IF parsed = NaN THEN fallback ELSE text

\* (dateStr, fallback = 'N/A') => ...
formatWith(fn, dateStr, fallback) ==
    IF ~Truthy(dateStr) THEN fallback
    ELSE shownOrFallback(DateParse(dateStr), LocaleText(fn, DateParse(dateStr)), fallback)

\* date values a caller may pass: none, null, empty, blank, not a date, dates
DateValues ==
    { Undefined, JsNull, EmptyStr, <<" ">>, <<"soon">>, <<"2025-13-45">>,
      <<"2025-01-10">>, <<"2025-01-12">>, Pad(<<"2025-01-12">>) }

\* fallbacks a caller may pass; the first is the default
Fallbacks == {NA, <<"-">>, EmptyStr}

\* one call of a formatter returns
FormatCall(fn, dateStr, fallback) ==
    /\ rendered' = [fn |-> fn, dateStr |-> dateStr, fallback |-> fallback,
                    text |-> formatWith(fn, dateStr, fallback)]
    /\ UNCHANGED <<now, retry, requests, responses, bookings, bookingReq,
                   contactInquiries, inquiryReq, tasks, handlers, disk, archives,
                   resends, reply>>

\* ------------------------------------------------------------ specifications
Deferred ==
    \/ \E i \in DOMAIN tasks : TimerFires(i)
    \/ \E i \in DOMAIN tasks : \E ok \in BOOLEAN : VerifySettles(i, ok)
    \/ \E i \in DOMAIN tasks : \E ok \in BOOLEAN : PdfSettles(i, ok)
    \/ \E i \in DOMAIN tasks : \E ok \in BOOLEAN : AdminSendSettles(i, ok)
    \/ \E i \in DOMAIN tasks : \E ok \in BOOLEAN : CustSendSettles(i, ok)
    \/ \E i \in DOMAIN handlers : \E ok \in BOOLEAN : AckSettles(i, ok)
    \/ \E i \in DOMAIN handlers : \E ok \in BOOLEAN : InternalSettles(i, ok)

Next ==
    \/ /\ Len(requests) < MaxRequests
       /\ \E req \in BookingPool : PostBooking(req)
    \/ /\ Len(requests) < MaxRequests
       /\ \E req \in ContactPool : \E rnd \in RandomPool : PostContact(req, rnd)
    \/ Deferred

Spec == Init /\ [][Next]_vars

\* one submission, drawn from every combination of field values
NextValidation ==
    \/ /\ requests = <<>>
       /\ \E body \in BookingBodies : PostBooking(BookingReq(body, NoParts))
    \/ /\ requests = <<>>
       /\ \E body \in ContactBodies : \E rnd \in RandomPool :
                PostContact(ContactReq(body), rnd)
    \/ Deferred

SpecValidation == Init /\ [][NextValidation]_vars


\* createBooking has just answered 201 for a booking whose record points at
\* documents, some of which are on disk; its deferred phase is still to run.
\* (The route's upload middleware never fills these paths: this is the
\* controller on the records its own code reads.)
InitDocuments ==
    /\ now = 0
    /\ requests = <<BookingReq(GoodBody, NoParts)>>
    /\ \E p1 \in {Undefined, IdDocumentFile} :
       \E p2 \in {Undefined, DrivingLicenseFile} :
       \E p3 \in {Undefined, DepositProofFile} :
          /\ bookings = <<DocumentBooking(p1, p2, p3)>>
          /\ responses = <<createBookingCreated(1, DocumentBooking(p1, p2, p3), <<>>)>>
    /\ bookingReq = <<1>>
    /\ contactInquiries = <<>>
    /\ inquiryReq = <<>>
    /\ tasks = <<NewTask(1, 1)>>
    /\ handlers = <<>>
    /\ disk \in SUBSET DocumentFiles
    /\ archives = {}
    /\ resends = <<>>
    /\ reply = NoReply
    /\ retry = NoRetry
    /\ rendered = NoRender

\* the deferred phase with its cleanup timer, and resends of the confirmation
NextDocuments ==
    \/ \E i \in DOMAIN tasks : TimerFires(i)
    \/ \E i \in DOMAIN tasks : \E ok \in BOOLEAN : VerifySettles(i, ok)
    \/ \E i \in DOMAIN tasks : \E ok \in BOOLEAN : PdfSettles(i, ok)
    \/ \E i \in DOMAIN tasks : \E ok \in BOOLEAN : AdminSendSettles(i, ok)
    \/ \E i \in DOMAIN tasks : \E ok \in BOOLEAN : CustSendSettles(i, ok)
    \/ \E i \in DOMAIN tasks : CleanupFires(i)
    \/ /\ Len(resends) < MaxResends
       /\ \E body \in ResendPool : PostSendConfirmation(body)
    \/ \E j \in DOMAIN resends : \E ok \in BOOLEAN : ResendPdfSettles(j, ok)
    \/ \E j \in DOMAIN resends : \E ok \in BOOLEAN : ResendSendSettles(j, ok)

SpecDocuments == InitDocuments /\ [][NextDocuments]_vars

\* bodies of the status update in the specification of both stores
StoresUpdatePool ==
    { [status |-> <<"resolved">>, assignedTo |-> <<"bob">>],
      [status |-> <<"closed">>, assignedTo |-> Undefined] }

\* every operation of the two routers on the two stores: create, the
\* notification work that follows, one resend, list, stats, status update
NextStores ==
    \/ /\ Len(requests) < MaxRequests
       /\ PostBooking(BookingReq(GoodBody, NoParts))
    \/ /\ Len(requests) < MaxRequests
       /\ \E rnd \in AdminRandomPool : PostContact(ContactReq(GoodContact), rnd)
    \/ Deferred
    \/ /\ resends = <<>>
       /\ \E body \in ResendPool : PostSendConfirmation(body)
    \/ \E j \in DOMAIN resends : \E ok \in BOOLEAN : ResendPdfSettles(j, ok)
    \/ \E j \in DOMAIN resends : \E ok \in BOOLEAN : ResendSendSettles(j, ok)
    \/ GetContactInquiries(NoQuery)
    \/ \E id \in IdPool : \E body \in StoresUpdatePool : UpdateInquiryStatus(id, body)
    \/ GetInquiryStats

SpecStores == Init /\ [][NextStores]_vars

\* one call of sendWithRetry, for every maxRetries up to the largest tried
InitRetry ==
    /\ now = 0
    /\ requests = <<>>
    /\ responses = <<>>
    /\ bookings = <<>>
    /\ bookingReq = <<>>
    /\ contactInquiries = <<>>
    /\ inquiryReq = <<>>
    /\ tasks = <<>>
    /\ handlers = <<>>
    /\ disk = {}
    /\ archives = {}
    /\ resends = <<>>
    /\ reply = NoReply
    /\ \E m \in 0..MaxRetriesTried : retry = StartRetry(m)
    /\ rendered = NoRender

NextRetry ==
    \/ \E outcome \in EmailFnOutcomes : RetryAttempt(outcome)
    \/ RetryBackoffElapsed
    \/ RetryGivesUp

\* emailFn settles and the backoff timer fires: the call is never left
\* waiting for ever
SpecRetry == InitRetry /\ [][NextRetry]_vars /\ WF_vars(NextRetry)

\* calls of the four date formatters on every date value
NextDates ==
    \E fn \in Formatters : \E dateStr \in DateValues : \E fallback \in Fallbacks :
        FormatCall(fn, dateStr, fallback)

SpecDates == Init /\ [][NextDates]_vars

\* contact submissions and the administrative endpoints on the inquiry store
NextAdmin ==
    \/ /\ Len(requests) < MaxRequests
       /\ \E req \in AdminContactPool : \E rnd \in AdminRandomPool :
                PostContact(req, rnd)
    \/ \E i \in DOMAIN handlers : \E ok \in MailOutcomesAdmin : AckSettles(i, ok)
    \/ \E i \in DOMAIN handlers : \E ok \in MailOutcomesAdmin : InternalSettles(i, ok)
    \/ \E query \in QueryPool : GetContactInquiries(query)
    \/ \E id \in IdPool : \E body \in UpdatePool : UpdateInquiryStatus(id, body)
    \/ GetInquiryStats

SpecAdmin == Init /\ [][NextAdmin]_vars


\* ------------------------------------------------------------------ claims
\* the responses sent for request n, in order
RespFor(n) == SelectSeq(responses, LAMBDA r : r.req = n)

ErrorFields(errors) == {errors[i].field : i \in 1..Len(errors)}

BookingIndexOf(n) == CHOOSE k \in DOMAIN bookings : bookingReq[k] = n

Stored(n) == \E k \in DOMAIN bookingReq : bookingReq[k] = n

StoredInquiry(n) == \E k \in DOMAIN inquiryReq : inquiryReq[k] = n

\* C1: for every accepted booking and every accepted contact submission the
\* HTTP response has been sent before any notification work for it (zip,
\* transport verification, PDF, mail send) has begun.
C1_ResponseBeforeNotification ==
    /\ \A i \in DOMAIN tasks :
          tasks[i].pc # "timer" => RespFor(tasks[i].req) # <<>>
    /\ \A i \in DOMAIN handlers :
          (handlers[i].ack # "none" \/ handlers[i].internal # "none")
              => RespFor(handlers[i].req) # <<>>

\* a booking submission no check of the route rejects
PassesBookingValidation(r) ==
    /\ r.kind = "booking"
    /\ ~uploadRejected(r.parts)
    /\ validateBookingErrors(r.body) = <<>>
    /\ r.body.termsAccepted \in {JsTrue, <<"true">>}

\* C2: every booking submission that passes validation gets exactly one
\* response, a 201, whatever fails afterwards in the deferred phase.
C2_ExactlyOne201 ==
    \A n \in DOMAIN requests :
        PassesBookingValidation(requests[n]) =>
            /\ Len(RespFor(n)) = 1
            /\ RespFor(n)[1].status = 201

\* C2 witness: a deferred phase has failed and its booking still has its
\* single 201
C2_Witness ==
    \E i \in DOMAIN tasks :
        /\ tasks[i].joined = "rejected"
        /\ tasks[i].cust = "failed"
        /\ Len(RespFor(tasks[i].req)) = 1
        /\ RespFor(tasks[i].req)[1].status = 201

\* C3: in the deferred phase of every accepted booking both the admin and
\* the customer notification are attempted, whatever fails before or beside
\* them.
C3_BothAttempted ==
    \A i \in DOMAIN tasks :
        tasks[i].pc = "done" =>
            /\ tasks[i].admin # "none"
            /\ tasks[i].cust # "none"

\* the validation rules of the two submissions, as the specification lists them
Blank(v) == ~Truthy(v) \/ Trim(v) = <<>>

RecognizedIdTypes == {<<"id">>, <<"passport">>, <<"national_id">>}

RecognizedDepartments == {<<"general">>, <<"booking">>, <<"corporate">>, <<"support">>}

ReturnNotAfterPickup(body) ==
    /\ Truthy(body.pickupDate) /\ DateParse(body.pickupDate) # NaN
    /\ Truthy(body.returnDate) /\ DateParse(body.returnDate) # NaN
    /\ DateParse(body.returnDate) <= DateParse(body.pickupDate)

ViolatedBookingFields(body) ==
    {f \in {"customerName", "phone", "carType", "pickupLocation", "idNumber"} :
        Blank(body[f])}
    \cup (IF ~Truthy(body.email) \/ ~emailRegexTest(body.email) THEN {"email"} ELSE {})
    \cup (IF ~Truthy(body.pickupDate) \/ DateParse(body.pickupDate) = NaN
          THEN {"pickupDate"} ELSE {})
    \cup (IF \/ ~Truthy(body.returnDate)
             \/ DateParse(body.returnDate) = NaN
             \/ ReturnNotAfterPickup(body)
          THEN {"returnDate"} ELSE {})
    \cup (IF body.idType \notin RecognizedIdTypes THEN {"idType"} ELSE {})
    \cup (IF body.termsAccepted \notin {JsTrue, <<"true">>} THEN {"termsAccepted"} ELSE {})

ViolatedContactFields(body) ==
    {f \in {"name", "subject", "message"} : ~Truthy(body[f])}
    \cup (IF ~Truthy(body.email) \/ ~emailRegexTest(body.email) THEN {"email"} ELSE {})
    \cup (IF body.department \notin RecognizedDepartments THEN {"department"} ELSE {})

ViolatedFields(r) ==
    IF r.kind = "booking" THEN ViolatedBookingFields(r.body)
    ELSE ViolatedContactFields(r.body)

\* C4: a submission that violates validation rules is answered 400 with a
\* field-error list holding an entry for every violated field.
C4_AllViolationsListed ==
    \A n \in DOMAIN requests :
        (~uploadRejected(requests[n].parts) /\ ViolatedFields(requests[n]) # {}) =>
            /\ Len(RespFor(n)) = 1
            /\ RespFor(n)[1].status = 400
            /\ ViolatedFields(requests[n]) \subseteq ErrorFields(RespFor(n)[1].errors)

\* a 400 goes out in this step
Answers400 ==
    /\ Len(responses') = Len(responses) + 1
    /\ responses'[Len(responses')].status = 400

\* C5: a submission answered 400 leaves both stores as they were, and a
\* booking is stored only for a submission whose termsAccepted was true or
\* "true", with termsAccepted = true in the record.
C5_RejectionStoresNothing ==
    /\ [][Answers400 => (bookings' = bookings /\ contactInquiries' = contactInquiries)]_vars
    /\ [](\A k \in DOMAIN bookings :
            /\ bookings[k].termsAccepted = TRUE
            /\ requests[bookingReq[k]].body.termsAccepted \in {JsTrue, <<"true">>})
    /\ [](\A i \in DOMAIN responses :
            responses[i].status = 400 =>
                ~Stored(responses[i].req) /\ ~StoredInquiry(responses[i].req))

\* C5 witness: a submission without accepted terms was answered 400 while
\* a booking was already in the store
C5_Witness ==
    \E i \in DOMAIN responses :
        /\ responses[i].status = 400
        /\ responses[i].req > 1
        /\ requests[responses[i].req].kind = "booking"
        /\ requests[responses[i].req].body.termsAccepted = <<"yes">>
        /\ Len(bookings) = 1
        /\ bookingReq[1] < responses[i].req

\* C6: a booking submission whose return date is not strictly after its
\* pickup date is answered 400 with a returnDate entry and is not stored;
\* every stored booking returns strictly after its pickup.
C6_ReturnAfterPickup ==
    /\ \A n \in DOMAIN requests :
          (requests[n].kind = "booking" /\ ReturnNotAfterPickup(requests[n].body)) =>
              /\ Len(RespFor(n)) = 1
              /\ RespFor(n)[1].status = 400
              /\ "returnDate" \in ErrorFields(RespFor(n)[1].errors)
              /\ ~Stored(n)
    /\ \A k \in DOMAIN bookings :
          /\ DateParse(bookings[k].pickupDate) # NaN
          /\ DateParse(bookings[k].returnDate) > DateParse(bookings[k].pickupDate)

\* C6 witness: two valid dates, the return on the pickup day, answered 400
\* with the returnDate entry
C6_Witness ==
    \E n \in DOMAIN requests :
        /\ requests[n].kind = "booking"
        /\ DateParse(requests[n].body.returnDate) = 10
        /\ DateParse(requests[n].body.pickupDate) = 10
        /\ RespFor(n) # <<>>
        /\ ErrorFields(RespFor(n)[1].errors) = {"returnDate"}

\* stored (or answered) value of an optional field: the trimmed input, an
\* empty or absent one counting as absent
TrimmedOptional(got, input) ==
    IF Blank(input) THEN ~Truthy(got) ELSE got = Trim(input)

\* C7: an accepted booking's stored record and 201 body carry the email
\* trimmed and lower-cased and every other string field trimmed.
C7_TrimmedAndLowered ==
    \A k \in DOMAIN bookings :
        LET b == bookings[k]
            input == requests[bookingReq[k]].body
            r == RespFor(bookingReq[k])[1].payload[1]
        IN  /\ b.email = ToLowerCase(Trim(input.email))
            /\ r.email = ToLowerCase(Trim(input.email))
            /\ \A f \in {"customerName", "phone", "carType", "pickupLocation",
                         "idNumber", "idType", "pickupDate", "returnDate"} :
                  /\ b[f] = Trim(input[f])
                  /\ r[f] = Trim(input[f])
            /\ \A f \in {"dropoffLocation", "additionalInfo"} :
                  TrimmedOptional(b[f], input[f])

\* every rule but the idType rule is met
ValidButForIdType(r) ==
    /\ r.kind = "booking"
    /\ ~uploadRejected(r.parts)
    /\ ViolatedBookingFields(r.body) \subseteq {"idType"}

\* C8: an otherwise valid booking is accepted, and stored with its idType
\* unchanged, exactly when idType is id, passport or national_id; any other
\* value is answered 400.
C8_IdTypeAcceptedIffRecognized ==
    \A n \in DOMAIN requests :
        ValidButForIdType(requests[n]) =>
            IF requests[n].body.idType \in RecognizedIdTypes
            THEN /\ RespFor(n)[1].status = 201
                 /\ Stored(n)
                 /\ bookings[BookingIndexOf(n)].idType = requests[n].body.idType
            ELSE /\ RespFor(n)[1].status = 400
                 /\ ~Stored(n)

\* C9: every stored inquiry's department is general, booking, corporate or
\* support; a submission with another department is answered 400 and not
\* stored.
C9_DepartmentRecognized ==
    /\ \A k \in DOMAIN contactInquiries :
          contactInquiries[k].department \in RecognizedDepartments
    /\ \A n \in DOMAIN requests :
          (/\ requests[n].kind = "contact"
           /\ requests[n].body.department \notin RecognizedDepartments) =>
              /\ ~StoredInquiry(n)
              /\ RespFor(n) # <<>>
              /\ RespFor(n)[1].status = 400

ClaimUrgentWords ==
    {<<"urgent">>, <<"emergency">>, <<"immediately">>, <<"asap">>, <<"critical">>,
     <<"broken", " ", "down">>, <<"accident">>, <<"stranded">>}

ClaimHighWords ==
    {<<"important">>, <<"priority">>, <<"corporate">>, <<"business">>,
     <<"enterprise">>, <<"partnership">>, <<"executive">>, <<"ceo">>}

Mentions(body, words) ==
    \E w \in words : Includes(ToLowerCase(body.subject \o <<" ">> \o body.message), w)

\* C10: the stored priority is urgent when the lower-cased subject+message
\* holds an urgent keyword or the department is support; otherwise high when
\* it holds a high keyword or the department is corporate; otherwise normal.
C10_PriorityDerivation ==
    \A k \in DOMAIN contactInquiries :
        LET body == requests[inquiryReq[k]].body
            p == contactInquiries[k].priority
        IN  /\ (p = "urgent") <=>
                  (Mentions(body, ClaimUrgentWords) \/ body.department = <<"support">>)
            /\ (p = "high") <=>
                  /\ ~(Mentions(body, ClaimUrgentWords) \/ body.department = <<"support">>)
                  /\ (Mentions(body, ClaimHighWords) \/ body.department = <<"corporate">>)
            /\ p \in {"urgent", "high", "normal"}

\* C10 witness: department general, the keyword "broken down" formed across
\* the subject and the message, stored as urgent
C10_Witness ==
    \E k \in DOMAIN contactInquiries :
        /\ contactInquiries[k].department = <<"general">>
        /\ contactInquiries[k].subject = <<"car", " ", "broken">>
        /\ contactInquiries[k].message = <<"down", " ", "now">>
        /\ contactInquiries[k].priority = "urgent"

\* ---------------------------------------------------------------- listing
\* the filters of a query an inquiry meets
MatchesQuery(q, query) ==
    /\ Truthy(query.department) => q.department = query.department
    /\ Truthy(query.status) => <<q.status>> = query.status
    /\ Truthy(query.priority) => <<q.priority>> = query.priority

ClaimRank(p) == CASE p = "urgent" -> 0 [] p = "high" -> 1 [] p = "normal" -> 2 [] p = "low" -> 3

\* stored inquiry i is listed before stored inquiry j
ListedBefore(store, i, j) ==
    \/ ClaimRank(store[i].priority) < ClaimRank(store[j].priority)
    \/ /\ store[i].priority = store[j].priority
       /\ store[i].submissionDate > store[j].submissionDate
    \/ /\ store[i].priority = store[j].priority
       /\ store[i].submissionDate = store[j].submissionDate
       /\ i < j

Matching(store, query) == {i \in DOMAIN store : MatchesQuery(store[i], query)}

\* the stored position of the k-th inquiry of the listing
ListedAt(store, query, k) ==
    CHOOSE i \in Matching(store, query) :
        Cardinality({j \in Matching(store, query) : ListedBefore(store, j, i)}) = k - 1

\* C11: for every query without a limit, the listing of the store holds
\* exactly the inquiries meeting every supplied filter, ordered by priority
\* rank, then newest first, then stored order.
C11_ListingFilteredAndSorted ==
    \A query \in QueryPool :
        ~Truthy(query.limit) =>
            LET result == getContactInquiriesResult(contactInquiries, query) IN
            /\ Len(result) = Cardinality(Matching(contactInquiries, query))
            /\ \A k \in 1..Len(result) :
                  \A f \in DOMAIN result[k] :
                      result[k][f] = contactInquiries[ListedAt(contactInquiries, query, k)][f]

\* C11 witness: a listing without filters answered with the later, urgent
\* inquiry ahead of the earlier, normal one
C11_Witness ==
    /\ reply.op = "list"
    /\ reply.query = NoQuery
    /\ Len(contactInquiries) = 2
    /\ contactInquiries[1].priority = "normal"
    /\ contactInquiries[2].priority = "urgent"
    /\ Len(reply.result) = 2
    /\ reply.result[1].priority = "urgent"
    /\ reply.result[2].priority = "normal"

\* ---------------------------------------------------------- status update
ClaimStatuses == {<<"new">>, <<"in-progress">>, <<"resolved">>, <<"archived">>}

KnownInquiryId(id) == \E k \in DOMAIN contactInquiries : contactInquiries[k].id = id

\* C13: a status update for an unknown id is answered 404 and one whose
\* status is outside new/in-progress/resolved/archived is answered 400, the
\* store staying as it was in both cases; every stored status is one of the
\* four.
C13_UpdateRejections ==
    /\ [][\A id \in IdPool : \A body \in UpdatePool :
            UpdateInquiryStatus(id, body) =>
                /\ ~KnownInquiryId(id) =>
                      /\ reply'.status = 404
                      /\ contactInquiries' = contactInquiries
                /\ (/\ KnownInquiryId(id)
                    /\ body.status # Undefined
                    /\ body.status \notin ClaimStatuses) =>
                      /\ reply'.status = 400
                      /\ contactInquiries' = contactInquiries]_vars
    /\ [](\A k \in DOMAIN contactInquiries :
            <<contactInquiries[k].status>> \in ClaimStatuses)

\* ---- C12
NoBookingWithId(id) == \A k \in DOMAIN bookings : JsIdOf(bookings[k]) # id
MissingOrEmpty(id) == id \in {Undefined, EmptyStr}

\* C12 as stated: a resend is answered 404 exactly when no stored booking has
\* the given id, 200 when the booking is found and the send succeeds, 500
\* when it is found and the send or the PDF fails. Violated: a request
\* without a bookingId (or with an empty one) matches no booking and is
\* answered 400.
C12_ResendAnswersAsStated ==
    \A j \in DOMAIN resends :
        resends[j].pc = "done" =>
            /\ (resends[j].status = 404) <=> NoBookingWithId(resends[j].bookingId)
            /\ ~NoBookingWithId(resends[j].bookingId) =>
                    /\ resends[j].cust = "ok" => resends[j].status = 200
                    /\ resends[j].cust = "failed" => resends[j].status = 500

\* C12, amended: a resend without a bookingId, or with an empty one, is
\* answered 400; otherwise it is answered 404 exactly when no stored booking
\* has the given id; when the booking is found it is answered 200 if the
\* customer send succeeds and 500 if the send or the PDF generation fails;
\* no step of a resend changes the booking store.
C12_ResendAnswers ==
    /\ [](\A j \in DOMAIN resends :
            resends[j].pc = "done" =>
                /\ (resends[j].status = 400) <=> MissingOrEmpty(resends[j].bookingId)
                /\ (resends[j].status = 404) <=>
                        /\ ~MissingOrEmpty(resends[j].bookingId)
                        /\ NoBookingWithId(resends[j].bookingId)
                /\ ~NoBookingWithId(resends[j].bookingId) =>
                        /\ (resends[j].status = 200) <=> (resends[j].cust = "ok")
                        /\ (resends[j].status = 500) <=> (resends[j].cust = "failed"))
    /\ [][resends' # resends => bookings' = bookings]_vars

\* one resend was answered 400 for want of an id, another 500 after the send
\* for a stored booking failed
C12_Witness ==
    \E i, j \in DOMAIN resends :
        /\ resends[i].status = 400 /\ MissingOrEmpty(resends[i].bookingId)
        /\ resends[j].status = 500 /\ resends[j].cust = "failed"
        /\ ~NoBookingWithId(resends[j].bookingId)

\* ---- C14
\* the slots of a booking whose document path is set and names a file on disk
ExistingCandidates(b) ==
    {i \in 1..3 : Paths(b)[i] # Undefined /\ Paths(b)[i] \in disk}
LastComponent(path) == <<path[Len(path)]>>
EntryNames(entries) == {entries[i] : i \in DOMAIN entries}

\* C14: for every stored booking and every disk content, the packager returns
\* null when no candidate path exists on disk; otherwise (the write not
\* failing) it returns an archive whose entry count is the number N of
\* candidate paths that exist and whose entry names are their base names;
\* every archive a flow has written to disk is of that form.
C14_PackagerEntries ==
    \A k \in DOMAIN bookings :
        LET b == bookings[k]
            N == Cardinality(ExistingCandidates(b))
            names == {LastComponent(Paths(b)[i]) : i \in ExistingCandidates(b)}
        IN  /\ N = 0 => \A ioError \in BOOLEAN :
                            createDocumentsZip(b, disk, ioError) = JsNull
            /\ N > 0 =>
                /\ createDocumentsZip(b, disk, FALSE) # JsNull
                /\ Len(zipEntryNames(b, disk)) = N
                /\ EntryNames(zipEntryNames(b, disk)) = names
            /\ \A a \in archives :
                a.path = zipFilePath(b) =>
                    /\ N > 0
                    /\ Len(a.entries) = N
                    /\ EntryNames(a.entries) = names

\* an archive with two entries was written for a booking with three document
\* paths, one of which names no file
C14_Witness ==
    \E a \in archives : \E k \in DOMAIN bookings :
        /\ a.path = zipFilePath(bookings[k])
        /\ Len(a.entries) = 2
        /\ \A i \in 1..3 : Paths(bookings[k])[i] # Undefined
        /\ \E i \in 1..3 : Paths(bookings[k])[i] \notin disk

\* ---- C15
\* the deferred phase of task t found documents to pack and got no archive:
\* the write failed
ArchiveWriteFailed(t) ==
    /\ t.pc # "timer"
    /\ t.zipPath = JsNull
    /\ ExistingCandidates(bookings[t.b]) # {}

Quiescent ==
    /\ \A i \in DOMAIN tasks :
            /\ tasks[i].pc = "done"
            /\ tasks[i].cleanup # "scheduled"
            /\ tasks[i].admin # "inflight"
            /\ tasks[i].cust \notin {"pdf", "inflight"}
    /\ \A j \in DOMAIN resends : resends[j].pc = "done"

AttachingSendInFlight(t) ==
    \/ t.admin = "inflight" /\ t.adminZip
    \/ t.cust = "inflight" /\ t.custZip

NoDocuments == [idDocument |-> FALSE, drivingLicense |-> FALSE, depositProof |-> FALSE]

\* C18: a booking accepted without any uploaded file is answered with all
\* three hasDocuments flags false, and its deferred phase ends with exactly
\* one customer and exactly one admin send attempted, neither with an
\* archive attached.
C18_NoFilesNoAttachment ==
    \A i \in DOMAIN tasks :
        requests[tasks[i].req].parts = NoParts =>
            /\ \A k \in DOMAIN responses :
                    (responses[k].req = tasks[i].req /\ responses[k].status = 201) =>
                        responses[k].payload[1].hasDocuments = NoDocuments
            /\ tasks[i].pc = "done" =>
                    /\ tasks[i].zipPath = JsNull
                    /\ tasks[i].admin # "none" /\ ~tasks[i].adminZip
                    /\ tasks[i].cust # "none" /\ ~tasks[i].custZip

\* ---- C19
\* C19: no two stored bookings share an id.
C19_BookingIdsDistinct ==
    \A i, j \in DOMAIN bookings : i # j => bookings[i].id # bookings[j].id

\* ---- C20
\* every stored booking is still there, in its place, with every field as it was
BookingsKept ==
    /\ Len(bookings') >= Len(bookings)
    /\ \A k \in DOMAIN bookings : bookings'[k] = bookings[k]

\* the inquiry of submission n after the step, wherever the store holds it
InquiryAfter(n) ==
    contactInquiries'[CHOOSE k \in DOMAIN inquiryReq' : inquiryReq'[k] = n]

\* the inquiry of submission n is still stored, with every field outside
\* `exempt` as it was
InquiryKept(n, exempt) ==
    /\ \E k \in DOMAIN inquiryReq' : inquiryReq'[k] = n
    /\ DOMAIN InquiryAfter(n) = DOMAIN InquiryOf(n)
    /\ \A f \in (DOMAIN InquiryOf(n)) \ exempt : InquiryAfter(n)[f] = InquiryOf(n)[f]

InquiriesKept(exempt) ==
    /\ Len(contactInquiries') >= Len(contactInquiries)
    /\ \A k \in DOMAIN inquiryReq : InquiryKept(inquiryReq[k], exempt)

IsStatusUpdate ==
    \E id \in IdPool : \E body \in StoresUpdatePool : UpdateInquiryStatus(id, body)

\* C20 as stated: no step removes a stored record, no step changes a field of
\* a stored booking, and no step changes a field of a stored inquiry other
\* than status. Violated: the status update also sets assignedTo.
C20_RecordsKeptAsStated ==
    [][BookingsKept /\ InquiriesKept({"status"})]_vars

\* C20, amended: once stored, a record is never removed and never changed by
\* any operation other than the inquiry status-update endpoint; every field
\* of a booking stays as created under create, resend, list, stats,
\* notification and update steps, and an inquiry's fields other than status
\* and assignedTo stay as created.
C20_RecordsKept ==
    [][/\ BookingsKept
       /\ InquiriesKept({"status", "assignedTo"})
       /\ ~IsStatusUpdate => InquiriesKept({})]_vars

\* a booking and an inquiry are stored, the inquiry has been resolved and
\* assigned, a resend for the booking has been answered 200 and the
\* statistics have just been read
C20_Witness ==
    /\ bookings # <<>>
    /\ \E k \in DOMAIN contactInquiries :
            /\ contactInquiries[k].status = "resolved"
            /\ contactInquiries[k].assignedTo = <<"bob">>
    /\ \E j \in DOMAIN resends : resends[j].status = 200
    /\ reply.op = "stats"

\* ---- C21
Succeeded(k) == retry.attempts[k] = "success"

\* C21: sendWithRetry always returns; it calls emailFn at most maxRetries
\* times; a successful call is the last one made and its result is what is
\* returned; a failure result is returned after exactly maxRetries
\* unsuccessful calls, whether they resolved with success = false or threw;
\* nothing happens after the return.
C21_RetryBoundedAndTerminates ==
    /\ [](Len(retry.attempts) <= retry.maxRetries)
    /\ [](\A k \in DOMAIN retry.attempts :
            Succeeded(k) => /\ k = Len(retry.attempts)
                            /\ retry.pc = "returned"
                            /\ retry.result = "success")
    /\ []((retry.pc = "returned" /\ \A k \in DOMAIN retry.attempts : ~Succeeded(k)) =>
            /\ retry.result = "failure"
            /\ Len(retry.attempts) = retry.maxRetries)
    /\ [][retry.pc = "returned" => retry' = retry]_vars
    /\ <>(retry.pc = "returned")

\* a call with maxRetries = 3 has returned failure after a call that
\* resolved unsuccessfully and calls that threw
C21_Witness ==
    /\ retry.pc = "returned" /\ retry.result = "failure"
    /\ retry.maxRetries = 3
    /\ retry.attempts = <<"failure", "throws", "throws">>

\* ---- C23
\* 1000 * 2^i for the waits a run can have
ClaimWaits == <<1000, 2000, 4000, 8000, 16000, 32000>>

\* the attempts that failed and were not the last one allowed
FailedBeforeLast ==
    {k \in DOMAIN retry.attempts : ~Succeeded(k) /\ k < retry.maxRetries}

\* C23: the wait before attempt i+1 (i from 0) is 1000 * 2^i ms; there is
\* one wait for each failed attempt that is not the last one allowed, started
\* right after it, and none after the final attempt or a successful one.
C23_BackoffSchedule ==
    /\ \A k \in DOMAIN retry.waits : retry.waits[k] = ClaimWaits[k]
    /\ retry.pc = "backoff" =>
            /\ Len(retry.attempts) \in FailedBeforeLast
            /\ Len(retry.waits) = Len(retry.attempts) - 1
    /\ retry.pc \in {"loop", "returned"} =>
            Len(retry.waits) = Cardinality(FailedBeforeLast)

\* a call with maxRetries = 3 failed three times and waited 1 s, then 2 s
C23_Witness ==
    /\ retry.pc = "returned" /\ retry.maxRetries = 3
    /\ Len(retry.attempts) = 3
    /\ retry.waits = <<1000, 2000>>

\* ---- C22
Packaged(t) == t.pc # "timer"

\* C22: in a booking's deferred phase the step that packs the archive starts
\* nothing else; when it is over the archive is on disk with its entries, or
\* it is settled that there is none; and transport verification, PDF
\* rendering and the sends, which all come later, see that result unchanged.
C22_PackagingFirst ==
    [][\A i \in DOMAIN tasks :
          /\ ~Packaged(tasks[i]) =>
                /\ tasks'[i].pc \in {"timer", "verify"}
                /\ tasks'[i].admin = "none" /\ tasks'[i].cust = "none"
                /\ Packaged(tasks'[i]) =>
                      \/ tasks'[i].zipPath = JsNull
                      \/ /\ tasks'[i].zipPath \in disk'
                         /\ \E a \in archives' :
                               /\ a.path = tasks'[i].zipPath
                               /\ a.entries = zipEntryNames(bookings[tasks[i].b], disk)
          /\ Packaged(tasks[i]) => tasks'[i].zipPath = tasks[i].zipPath]_vars

\* the admin send of a deferred phase is in flight with the archive that
\* the phase packed attached
C22_Witness ==
    \E i \in DOMAIN tasks :
        /\ tasks[i].zipPath # JsNull
        /\ tasks[i].admin = "inflight" /\ tasks[i].adminZip
        /\ tasks[i].cust = "pdf"

\* ---- C24
ClaimNoDate == {Undefined, JsNull, EmptyStr}
ClaimNotADate == {<<" ">>, <<"soon">>, <<"2025-13-45">>}
ClaimFormatted ==
    { <<"1/10/2025">>, <<"1/12/2025">>,
      <<"1/10/2025", ", 12:00:00 AM">>, <<"1/12/2025", ", 12:00:00 AM">>,
      <<"January 10, 2025">>, <<"January 12, 2025">>,
      <<"January 10, 2025 at 12:00 AM">>, <<"January 12, 2025 at 12:00 AM">> }

\* C24: every call of formatDate or formatDateTime (either module's)
\* returns; for a missing, empty or unparseable date string it returns the
\* fallback, "N/A" unless the caller gave another, and for a parseable one a
\* formatted date; and the one-argument formatDate the booking response uses
\* is the formatDate of these with the default fallback.
C24_DatesFormattedOrFallback ==
    /\ rendered.fn # "none" =>
          IF rendered.dateStr \in ClaimNoDate \cup ClaimNotADate
          THEN rendered.text = rendered.fallback
          ELSE rendered.text \in ClaimFormatted
    /\ (rendered.fn = "formatDate" /\ rendered.fallback = <<"N/A">>) =>
          rendered.text = formatDate(rendered.dateStr)

\* formatDateTime has just returned "N/A" for a string that is no date
C24_Witness ==
    /\ rendered.fn = "formatDateTime"
    /\ rendered.dateStr = <<"soon">>
    /\ rendered.text = <<"N/A">>

Flows == ({"task"} \X DOMAIN tasks) \cup ({"resend"} \X DOMAIN resends)
FlowsAfter == ({"task"} \X DOMAIN tasks') \cup ({"resend"} \X DOMAIN resends')

\* the archive a flow has packed and still needs: its sends are not all over
ArchiveInUse(f) ==
    IF f[1] = "task"
    THEN IF /\ tasks[f[2]].zipPath # JsNull
            /\ \/ tasks[f[2]].pc \in {"verify", "sending"}
               \/ AttachingSendInFlight(tasks[f[2]])
         THEN {tasks[f[2]].zipPath} ELSE {}
    ELSE IF resends[f[2]].zipPath # JsNull /\ resends[f[2]].pc \in {"pdf", "sending"}
         THEN {resends[f[2]].zipPath} ELSE {}

\* the step is one of flow g
StepOf(g) ==
    IF g[1] = "task"
    THEN g[2] \in DOMAIN tasks /\ tasks'[g[2]] # tasks[g[2]]
    ELSE g[2] \notin DOMAIN resends \/ resends'[g[2]] # resends[g[2]]

\* the step is flow g packing its archive at path z
Packs(g, z) ==
    IF g[1] = "task"
    THEN g[2] \in DOMAIN tasks /\ tasks[g[2]].pc = "timer" /\ tasks'[g[2]].zipPath = z
    ELSE g[2] \notin DOMAIN resends /\ resends'[g[2]].zipPath = z

RECURSIVE SumOver(_, _)
SumOver(f, keys) ==
    IF keys = {} THEN 0
    ELSE LET k == CHOOSE x \in keys : TRUE IN f[k] + SumOver(f, keys \ {k})

\* C27: getInquiryStats leaves the inquiry store as it was, the same records
\* in the same order, and its counts add up: total = sum of byStatus = sum
\* of byPriority.
C27_StatsReadOnly ==
    [][GetInquiryStats =>
          /\ contactInquiries' = contactInquiries
          /\ reply'.stats.total = Len(contactInquiries)
          /\ reply'.stats.total =
                SumOver(reply'.stats.byStatus, DOMAIN reply'.stats.byStatus)
          /\ reply'.stats.total =
                SumOver(reply'.stats.byPriority, DOMAIN reply'.stats.byPriority)]_vars

\* ---- C28
\* a file part with this field name came with the request and was accepted
Uploaded(n, name) ==
    \E i \in 1..Len(requests[n].parts) :
        requests[n].parts[i].fieldname = name /\ requests[n].parts[i].ok

SlotOf(b, name) ==
    CASE name = "idDocument" -> b.idDocumentPath
      [] name = "drivingLicense" -> b.drivingLicensePath
      [] OTHER -> b.depositProofPath

\* C28: for every stored booking and each of idDocument, drivingLicense and
\* depositProof, the record's slot holds a path, and the hasDocuments flag of
\* the 201 response is true, exactly when a file part of that name was
\* uploaded and accepted.
C28_SlotsFollowUploads ==
    \A k \in DOMAIN bookings : \A name \in FileFieldNames :
        /\ (SlotOf(bookings[k], name) # Undefined) <=> Uploaded(bookingReq[k], name)
        /\ \A r \in DOMAIN responses :
              (responses[r].req = bookingReq[k] /\ responses[r].status = 201) =>
                  (responses[r].payload[1].hasDocuments[name]
                      <=> Uploaded(bookingReq[k], name))

\* ---- C29
HandlerOf(n) == \E i \in DOMAIN handlers : handlers[i].req = n

\* C29: every valid contact submission is accepted and its inquiry stays
\* stored; it gets no answer while a send is in flight and exactly one
\* answer, a 201, once both sends have settled, whatever their outcomes;
\* it is never answered 500.
C29_Contact201WhateverTheMails ==
    /\ \A n \in DOMAIN requests :
          (requests[n].kind = "contact" /\ ViolatedContactFields(requests[n].body) = {}) =>
              HandlerOf(n)
    /\ \A i \in DOMAIN handlers :
          /\ StoredInquiry(handlers[i].req)
          /\ \A r \in DOMAIN responses :
                responses[r].req = handlers[i].req => responses[r].status = 201
          /\ Len(RespFor(handlers[i].req)) =
                (IF handlers[i].ack # "inflight" /\ handlers[i].internal # "inflight"
                 THEN 1 ELSE 0)

\* a contact submission was answered 201 after both of its sends failed
C29_Witness ==
    \E i \in DOMAIN handlers :
        /\ handlers[i].ack = "failed" /\ handlers[i].internal = "failed"
        /\ Len(RespFor(handlers[i].req)) = 1
        /\ RespFor(handlers[i].req)[1].status = 201
        /\ StoredInquiry(handlers[i].req)

\* ---- C30
\* the number a numeric limit stands for
ClaimLimit(limit) ==
    CASE limit = <<"1">> -> 1
      [] limit = <<"2">> -> 2
      [] limit = <<"-1">> -> 0 - 1
      [] OTHER -> 0

\* the first k elements of a list, all of it when it is shorter, none when
\* k is not positive
FirstK(list, k) ==
    SubSeq(list, 1, IF k < 0 THEN 0 ELSE IF k < Len(list) THEN k ELSE Len(list))

\* C30: the listing's count is the number of records it returns; with a
\* numeric limit k these are the first k of the filtered and sorted list (at
\* most k), and without one they are all of it.
C30_LimitTakesFirstK ==
    [][\A query \in QueryPool :
          GetContactInquiries(query) =>
              LET full == getContactInquiriesResult(contactInquiries,
                                                    [query EXCEPT !.limit = Undefined])
              IN  /\ reply'.count = Len(reply'.result)
                  /\ reply'.result =
                        IF query.limit \in {<<"1">>, <<"2">>, <<"-1">>}
                        THEN FirstK(full, ClaimLimit(query.limit))
                        ELSE full]_vars
====
